---- MODULE Spec2Model ----
(***************************************************************************)
(* State-machine model of SymptomsComponent                                *)
(* (src/src/app/pages/symptoms/symptoms.component.ts): the typeahead over   *)
(* ALL_SYMPTOMS, the selection list, the four-step wizard, the deferred     *)
(* blur close (setTimeout) and the asynchronous analyze() call (fetch).     *)
(*                                                                         *)
(* JavaScript strings that the code takes apart (inputText, the vocabulary) *)
(* are sequences of one-character strings, so that trim, toLowerCase,       *)
(* split and includes are computed as the code computes them.  Messages    *)
(* that are only stored and tested for emptiness are TLA+ strings.          *)
(* null is the empty set and a present value v is {v}.                      *)
(***************************************************************************)
EXTENDS Integers, Sequences, FiniteSets, TLC

VARIABLES
    step,                \* Step: 1 = enter, 2 = details, 3 = review, 4 = results
    inputText,           \* text of the symptom input
    selectedSymptoms,    \* chosen symptoms, in insertion order
    filteredSuggestions, \* typeahead list
    showSuggestions,     \* overlay open?
    activeIndex,         \* highlighted suggestion (0-based) or -1
    age,                 \* number | null
    gender,              \* Gender
    result,              \* CheckResponse | null
    loading,             \* UI flag
    error,               \* UI message
    requests,            \* number of fetch() calls of analyze() not settled yet
    timers,              \* number of setTimeout callbacks of onInputBlur() not yet run
    last                 \* the handler that ran last (for onInputKeydown, the case
                         \* of its switch); history, read by the properties only

fields == <<step, inputText, selectedSymptoms, filteredSuggestions, showSuggestions,
            activeIndex, age, gender, result, loading, error>>

vars == <<step, inputText, selectedSymptoms, filteredSuggestions, showSuggestions,
          activeIndex, age, gender, result, loading, error, requests, timers, last>>

-----------------------------------------------------------------------------
(* Bounds of the model *)

\* most entries selectedSymptoms is let to grow to
MaxSelected == 2
\* most fetch() calls in flight at once
MaxRequests == 2
\* most blur timers pending at once
MaxTimers == 1

-----------------------------------------------------------------------------
(* JavaScript values and string/array primitives *)

null == {}
Some(v) == {v}

Min(a, b) == IF a < b THEN a ELSE b
Max(a, b) == IF a > b THEN a ELSE b

UpperCase == <<"A","B","C","D","E","F","G","H","I","J","K","L","M",
               "N","O","P","Q","R","S","T","U","V","W","X","Y","Z">>
LowerCase == <<"a","b","c","d","e","f","g","h","i","j","k","l","m",
               "n","o","p","q","r","s","t","u","v","w","x","y","z">>

\* the lower-case letter of each upper-case letter
lowerOf ==
    [ch \in {UpperCase[i] : i \in 1..Len(UpperCase)} |->
        LowerCase[CHOOSE i \in 1..Len(UpperCase) : UpperCase[i] = ch]]

\* String.prototype.toLowerCase, one character
lowerChar(ch) == IF ch \in DOMAIN lowerOf THEN lowerOf[ch] ELSE ch

\* String.prototype.toLowerCase
toLowerCase(s) == [i \in 1..Len(s) |-> lowerChar(s[i])]

\* String.prototype.trim: drops the white space at both ends
RECURSIVE trimStart(_)
trimStart(s) == IF s # <<>> /\ Head(s) = " " THEN trimStart(Tail(s)) ELSE s
RECURSIVE trimEnd(_)
trimEnd(s) ==
    IF s # <<>> /\ s[Len(s)] = " " THEN trimEnd(SubSeq(s, 1, Len(s) - 1)) ELSE s
trim(s) == trimEnd(trimStart(s))

\* String.prototype.includes: q occurs in s as a substring
includes(s, q) ==
    \E i \in 0..(Len(s) - Len(q)) : SubSeq(s, i + 1, i + Len(q)) = q

\* String.prototype.split(','): the segments between the commas
RECURSIVE splitFrom(_, _)
splitFrom(s, cur) ==
    IF s = <<>> THEN <<cur>>
    ELSE IF Head(s) = "," THEN <<cur>> \o splitFrom(Tail(s), <<>>)
    ELSE splitFrom(Tail(s), Append(cur, Head(s)))
split(s) == splitFrom(s, <<>>)

\* the JavaScript % operator: the remainder takes the sign of the dividend
rem(a, n) == IF a >= 0 THEN a % n ELSE -((-a) % n)

\* Array.prototype.includes
arrayIncludes(a, x) == \E i \in 1..Len(a) : a[i] = x

\* Array.prototype.map with String.prototype.trim
mapTrim(a) == [i \in 1..Len(a) |-> trim(a[i])]

\* slice without its end: the whole array
sliceUnbounded(a, n) == a

\* Array.prototype.slice(0, n)
slice(a, n) == SubSeq(a, 1, Min(n, Len(a)))

\* Array.prototype.splice(index, 1): a negative index counts from the end, an
\* index past the end removes nothing
splice(a, index) ==
    LET start == IF index < 0 THEN Max(Len(a) + index, 0) ELSE Min(index, Len(a))
    IN  IF start < Len(a)
        THEN SubSeq(a, 1, start) \o SubSeq(a, start + 2, Len(a))
        ELSE a

-----------------------------------------------------------------------------
(* The vocabulary *)

ALL_SYMPTOMS == <<
    <<"h","e","a","d","a","c","h","e">>,
    <<"f","e","v","e","r">>,
    <<"c","o","u","g","h">>,
    <<"s","o","r","e"," ","t","h","r","o","a","t">>,
    <<"r","u","n","n","y"," ","n","o","s","e">>,
    <<"n","a","u","s","e","a">>,
    <<"v","o","m","i","t","i","n","g">>,
    <<"d","i","a","r","r","h","e","a">>,
    <<"f","a","t","i","g","u","e">>,
    <<"d","i","z","z","i","n","e","s","s">>,
    <<"c","h","i","l","l","s">>,
    <<"s","h","o","r","t","n","e","s","s"," ","o","f"," ","b","r","e","a","t","h">>,
    <<"a","b","d","o","m","i","n","a","l"," ","p","a","i","n">>,
    <<"b","a","c","k"," ","p","a","i","n">>,
    <<"c","h","e","s","t"," ","p","a","i","n">>,
    <<"m","u","s","c","l","e"," ","p","a","i","n">>,
    <<"j","o","i","n","t"," ","p","a","i","n">>,
    <<"r","a","s","h">> >>

\* the 8 of .slice(0, 8)
SuggestionLimit == 8

\* find with x.toLowerCase().includes(s.toLowerCase()) in place of ===
findSymptomSubstring(s) ==
    LET low  == toLowerCase(s)
        hits == {i \in 1..Len(ALL_SYMPTOMS) : includes(toLowerCase(ALL_SYMPTOMS[i]), low)}
    IN  IF hits = {} THEN null
        ELSE Some(ALL_SYMPTOMS[CHOOSE i \in hits : \A j \in hits : i <= j])

\* ALL_SYMPTOMS.find((x) => x.toLowerCase() === s.toLowerCase()): {} when
\* there is none (undefined), else the first such entry
findSymptom(s) ==
    LET low  == toLowerCase(s)
        hits == {i \in 1..Len(ALL_SYMPTOMS) : toLowerCase(ALL_SYMPTOMS[i]) = low}
    IN  IF hits = {} THEN null
        ELSE Some(ALL_SYMPTOMS[CHOOSE i \in hits : \A j \in hits : i <= j])

-----------------------------------------------------------------------------
(* The component's methods, as functions from the fields before the call to  *)
(* the fields after it.  t is the component (this).                          *)

\* the fields of the component in the current state
this ==
    [step |-> step, inputText |-> inputText, selectedSymptoms |-> selectedSymptoms,
     filteredSuggestions |-> filteredSuggestions, showSuggestions |-> showSuggestions,
     activeIndex |-> activeIndex, age |-> age, gender |-> gender, result |-> result,
     loading |-> loading, error |-> error]

\* the fields as the class initialisers leave them
initial ==
    [step |-> 1, inputText |-> <<>>, selectedSymptoms |-> <<>>,
     filteredSuggestions |-> <<>>, showSuggestions |-> FALSE, activeIndex |-> -1,
     age |-> null, gender |-> "", result |-> null, loading |-> FALSE, error |-> ""]

\* the suggestions for the query q: vocabulary entries that contain q and are
\* not selected, the first 8
filterSuggestions(q, selected) ==
    slice(SelectSeq(ALL_SYMPTOMS,
                    LAMBDA s : includes(toLowerCase(s), q) /\ ~arrayIncludes(selected, s)),
          SuggestionLimit)

onInputChange(t, value) ==
    LET t1 == [t EXCEPT !.inputText = value, !.error = ""]
        q  == toLowerCase(trim(value))
    IN  IF q = <<>>
        THEN [t1 EXCEPT !.filteredSuggestions = <<>>,
                        !.showSuggestions = FALSE,
                        !.activeIndex = -1]
        ELSE [t1 EXCEPT !.filteredSuggestions = filterSuggestions(q, t1.selectedSymptoms),
                        !.showSuggestions = TRUE,
                        !.activeIndex = -1]

resetInput(t) ==
    [t EXCEPT !.inputText = <<>>, !.filteredSuggestions = <<>>,
              !.showSuggestions = FALSE, !.activeIndex = -1, !.error = ""]

\* closeSuggestions clearing the whole input state as resetInput does
closeSuggestionsResets(t) == resetInput(t)

closeSuggestions(t) ==
    [t EXCEPT !.showSuggestions = FALSE, !.activeIndex = -1]

\* addSymptom without this.resetInput()
addSymptomNoReset(t, s) ==
    IF s = <<>> THEN t
    ELSE LET found == findSymptom(s)
         IN  IF found = null THEN [t EXCEPT !.error = "No results"]
             ELSE LET f == CHOOSE x \in found : TRUE
                  IN  IF ~arrayIncludes(t.selectedSymptoms, f)
                      THEN [t EXCEPT !.selectedSymptoms = Append(@, f)]
                      ELSE t

addSymptom(t, s) ==
    IF s = <<>> THEN t
    ELSE LET found == findSymptom(s)
         IN  IF found = null THEN [t EXCEPT !.error = "No results"]
             ELSE LET f == CHOOSE x \in found : TRUE
                  IN  resetInput(IF ~arrayIncludes(t.selectedSymptoms, f)
                                 THEN [t EXCEPT !.selectedSymptoms = Append(@, f)]
                                 ELSE t)

selectSuggestion(t, s) == addSymptom(t, s)

\* the loop without the test !this.selectedSymptoms.includes(exact)
RECURSIVE pushExactNoDedupe(_, _)
pushExactNoDedupe(acc, parts) ==
    IF parts = <<>> THEN acc
    ELSE LET exact == findSymptom(Head(parts))
         IN  IF exact # null
             THEN pushExactNoDedupe([selected |-> Append(acc.selected, CHOOSE x \in exact : TRUE),
                                     added |-> TRUE],
                                    Tail(parts))
             ELSE pushExactNoDedupe(acc, Tail(parts))

\* the loop of addFromInputExact over the segments: acc is [selected, added]
RECURSIVE pushExact(_, _)
pushExact(acc, parts) ==
    IF parts = <<>> THEN acc
    ELSE LET exact == findSymptom(Head(parts))
         IN  IF exact # null /\ ~arrayIncludes(acc.selected, CHOOSE x \in exact : TRUE)
             THEN pushExact([selected |-> Append(acc.selected, CHOOSE x \in exact : TRUE),
                             added |-> TRUE],
                            Tail(parts))
             ELSE pushExact(acc, Tail(parts))

\* addFromInputExact without the branch that reports "No results"
addFromInputExactSilent(t) ==
    LET parts == SelectSeq(mapTrim(split(t.inputText)), LAMBDA p : Len(p) > 0)
        done  == pushExact([selected |-> t.selectedSymptoms, added |-> FALSE], parts)
        t1    == [t EXCEPT !.selectedSymptoms = done.selected]
    IN  IF ~done.added THEN t1 ELSE resetInput(t1)

addFromInputExact(t) ==
    LET parts == SelectSeq(mapTrim(split(t.inputText)), LAMBDA p : Len(p) > 0)
        done  == pushExact([selected |-> t.selectedSymptoms, added |-> FALSE], parts)
        t1    == [t EXCEPT !.selectedSymptoms = done.selected]
    IN  IF ~done.added
        THEN [t1 EXCEPT !.error = "No results",
                        !.showSuggestions = TRUE,
                        !.filteredSuggestions = <<>>]
        ELSE resetInput(t1)

Keys == {"ArrowDown", "ArrowUp", "Enter", ",", "Escape"}

\* onInputKeydown with ArrowDown stopping at the last entry instead of wrapping
onInputKeydownNoWrap(t, key) ==
    LET t1 == IF ~t.showSuggestions /\ key \in {"ArrowDown", "ArrowUp"}
              THEN [t EXCEPT !.showSuggestions = TRUE]
              ELSE t
        n  == Len(t1.filteredSuggestions)
    IN  CASE key = "ArrowDown" ->
                IF n # 0 THEN [t1 EXCEPT !.activeIndex = Min(t1.activeIndex + 1, n - 1)] ELSE t1
          [] key = "ArrowUp" ->
                IF n # 0 THEN [t1 EXCEPT !.activeIndex = rem(t1.activeIndex - 1 + n, n)] ELSE t1
          [] key \in {"Enter", ","} ->
                IF t1.activeIndex >= 0 /\ t1.activeIndex < n
                THEN selectSuggestion(t1, t1.filteredSuggestions[t1.activeIndex + 1])
                ELSE addFromInputExact(t1)
          [] key = "Escape" -> closeSuggestions(t1)
          [] OTHER -> t1

onInputKeydown(t, key) ==
    LET t1 == IF ~t.showSuggestions /\ key \in {"ArrowDown", "ArrowUp"}
              THEN [t EXCEPT !.showSuggestions = TRUE]
              ELSE t
        n  == Len(t1.filteredSuggestions)
    IN  CASE key = "ArrowDown" ->
                IF n # 0 THEN [t1 EXCEPT !.activeIndex = rem(t1.activeIndex + 1, n)] ELSE t1
          [] key = "ArrowUp" ->
                IF n # 0 THEN [t1 EXCEPT !.activeIndex = rem(t1.activeIndex - 1 + n, n)] ELSE t1
          [] key \in {"Enter", ","} ->
                IF t1.activeIndex >= 0 /\ t1.activeIndex < n
                THEN selectSuggestion(t1, t1.filteredSuggestions[t1.activeIndex + 1])
                ELSE addFromInputExact(t1)
          [] key = "Escape" -> closeSuggestions(t1)
          [] OTHER -> t1

removeSymptom(t, index) ==
    [t EXCEPT !.selectedSymptoms = splice(@, index)]

\* nextStep without "if (this.error) return" after addFromInputExact()
nextStepNoAbort(t) ==
    LET t1 == [t EXCEPT !.error = ""]
        t2 == IF Len(trim(t1.inputText)) > 0 THEN addFromInputExact(t1) ELSE t1
    IN  IF Len(t2.selectedSymptoms) = 0
        THEN [t2 EXCEPT !.error =
                "Please pick from available symptoms. No results were found for your input."]
        ELSE [t2 EXCEPT !.step = 2]

nextStep(t) ==
    LET t1 == [t EXCEPT !.error = ""]
        t2 == IF Len(trim(t1.inputText)) > 0 THEN addFromInputExact(t1) ELSE t1
    IN  IF Len(trim(t1.inputText)) > 0 /\ t2.error # "" THEN t2
        ELSE IF Len(t2.selectedSymptoms) = 0
        THEN [t2 EXCEPT !.error =
                "Please pick from available symptoms. No results were found for your input."]
        ELSE [t2 EXCEPT !.step = 2]

backToStep1(t) == [t EXCEPT !.step = 1]
\* Number(v) for the texts the age input is given
Number(v) == CASE v = "30" -> 30 [] v = "7" -> 7 [] OTHER -> 0
onAgeInput(t, v) == [t EXCEPT !.age = IF v # "" THEN Some(Number(v)) ELSE null]
onGenderChange(t, v) == [t EXCEPT !.gender = v]
nextFromStep2(t) == [t EXCEPT !.step = 3]
backToStep2(t) == [t EXCEPT !.step = 2]

\* analyze() up to its first await: the flags are set and fetch() is called
analyzeStart(t) == [t EXCEPT !.loading = TRUE, !.error = ""]

\* the success path without this.step = 4
analyzeFulfilledNoStep(t, data) ==
    [t EXCEPT !.result = Some(data), !.loading = FALSE]

\* analyze() resumed with a response whose ok is true and whose body parses
analyzeFulfilled(t, data) ==
    [t EXCEPT !.result = Some(data), !.step = 4, !.loading = FALSE]

\* the catch block sending the wizard back to step 1
analyzeRejectedToStep1(t, message) ==
    [t EXCEPT !.error = IF message # "" THEN message
                        ELSE "Failed to analyze. Please try again.",
              !.step = 1,
              !.loading = FALSE]

\* the catch block without the finally block after it
analyzeRejectedNoFinally(t, message) ==
    [t EXCEPT !.error = IF message # "" THEN message
                        ELSE "Failed to analyze. Please try again."]

\* analyze() resumed in the catch block with the error err (its message)
analyzeRejected(t, message) ==
    [t EXCEPT !.error = IF message # "" THEN message
                        ELSE "Failed to analyze. Please try again.",
              !.loading = FALSE]

\* startNew without this.gender = ''
startNewKeepsGender(t) ==
    [t EXCEPT !.step = 1, !.inputText = <<>>, !.selectedSymptoms = <<>>, !.age = null,
              !.result = null, !.error = "", !.loading = FALSE,
              !.filteredSuggestions = <<>>, !.showSuggestions = FALSE,
              !.activeIndex = -1]

startNew(t) ==
    [t EXCEPT !.step = 1, !.inputText = <<>>, !.selectedSymptoms = <<>>, !.age = null,
              !.gender = "", !.result = null, !.error = "", !.loading = FALSE,
              !.filteredSuggestions = <<>>, !.showSuggestions = FALSE,
              !.activeIndex = -1]

-----------------------------------------------------------------------------
(* The inputs the events carry *)

\* texts typed into the symptom input: "", "ch", "Fever", " fever, Cough,,xyz"
InputTexts == {
    <<>>,
    <<"c","h">>,
    <<"F","e","v","e","r">>,
    <<" ","f","e","v","e","r",","," ","C","o","u","g","h",",",",","x","y","z">> }

\* texts of the age input
AgeTexts == {"", "30"}

\* values of the gender select
GenderValues == {"", "male"}

\* bodies the analysis service answers with (CheckResponse)
Responses == {[severity |-> "high", insights |-> <<"rest">>, advice |-> "see a doctor"]}

\* messages of the errors analyze() catches: a failed status (line 245) and a
\* rejected fetch()
FailureMessages == {"Server error: " \o ToString(500), "Failed to fetch"}

-----------------------------------------------------------------------------
(* State machine.  Each handler runs to completion (one JavaScript task).   *)
(* A handler is enabled in the step whose view it belongs to (source lines   *)
(* 24, 71, 211 and 228); startNew is enabled in every step.                  *)

\* the view of step n is the one shown: its controls are the ones the user
\* can reach (Collecting, Demographics, Review, Results)
InStep(n) == step = n

\* the handler's result is stored in the fields
Commit(t) ==
    /\ step' = t.step
    /\ inputText' = t.inputText
    /\ selectedSymptoms' = t.selectedSymptoms
    /\ filteredSuggestions' = t.filteredSuggestions
    /\ showSuggestions' = t.showSuggestions
    /\ activeIndex' = t.activeIndex
    /\ age' = t.age
    /\ gender' = t.gender
    /\ result' = t.result
    /\ loading' = t.loading
    /\ error' = t.error

Init ==
    /\ step = initial.step
    /\ inputText = initial.inputText
    /\ selectedSymptoms = initial.selectedSymptoms
    /\ filteredSuggestions = initial.filteredSuggestions
    /\ showSuggestions = initial.showSuggestions
    /\ activeIndex = initial.activeIndex
    /\ age = initial.age
    /\ gender = initial.gender
    /\ result = initial.result
    /\ loading = initial.loading
    /\ error = initial.error
    /\ requests = 0
    /\ timers = 0
    /\ last = "constructor"

(* Step 1: the symptom input and the chips *)

InputChange(value) ==
    LET t2 == onInputChange(this, value)
    IN  /\ InStep(1)
        /\ Commit(t2)
        /\ last' = "onInputChange"
        /\ UNCHANGED <<requests, timers>>

InputKeydown(key) ==
    LET t2 == onInputKeydown(this, key)
    IN  /\ InStep(1)
        /\ Len(t2.selectedSymptoms) <= MaxSelected
        /\ Commit(t2)
        /\ last' = (IF key = "," THEN "Enter" ELSE key)
        /\ UNCHANGED <<requests, timers>>

InputBlur ==
    /\ InStep(1)
    /\ timers < MaxTimers
    /\ timers' = timers + 1
    /\ last' = "onInputBlur"
    /\ UNCHANGED <<fields, requests>>

\* the callback of setTimeout(() => this.closeSuggestions(), 150) runs
BlurTimeout ==
    /\ timers > 0
    /\ Commit(closeSuggestions(this))
    /\ timers' = timers - 1
    /\ last' = "blurTimeout"
    /\ UNCHANGED requests

\* a click on the i-th suggestion of the list
SuggestionClick(i) ==
    LET t2 == selectSuggestion(this, filteredSuggestions[i])
    IN  /\ InStep(1)
        /\ i \in 1..Len(filteredSuggestions)
        /\ Len(t2.selectedSymptoms) <= MaxSelected
        /\ Commit(t2)
        /\ last' = "selectSuggestion"
        /\ UNCHANGED <<requests, timers>>

RemoveSymptom(index) ==
    /\ InStep(1)
    /\ Commit(removeSymptom(this, index))
    /\ last' = "removeSymptom"
    /\ UNCHANGED <<requests, timers>>

NextStep ==
    LET t2 == nextStep(this)
    IN  /\ InStep(1)
        /\ Len(t2.selectedSymptoms) <= MaxSelected
        /\ Commit(t2)
        /\ last' = "nextStep"
        /\ UNCHANGED <<requests, timers>>

(* Step 2: details *)

BackToStep1 ==
    /\ InStep(2)
    /\ Commit(backToStep1(this))
    /\ last' = "backToStep1"
    /\ UNCHANGED <<requests, timers>>

AgeInput(v) ==
    /\ InStep(2)
    /\ Commit(onAgeInput(this, v))
    /\ last' = "onAgeInput"
    /\ UNCHANGED <<requests, timers>>

GenderChange(v) ==
    /\ InStep(2)
    /\ Commit(onGenderChange(this, v))
    /\ last' = "onGenderChange"
    /\ UNCHANGED <<requests, timers>>

NextFromStep2 ==
    /\ InStep(2)
    /\ Commit(nextFromStep2(this))
    /\ last' = "nextFromStep2"
    /\ UNCHANGED <<requests, timers>>

(* Step 3: review, and the call of the analysis service *)

BackToStep2 ==
    /\ InStep(3)
    /\ Commit(backToStep2(this))
    /\ last' = "backToStep2"
    /\ UNCHANGED <<requests, timers>>

\* analyze() runs to its await of fetch(): one more request is in flight
Analyze ==
    /\ InStep(3)
    /\ requests < MaxRequests
    /\ Commit(analyzeStart(this))
    /\ requests' = requests + 1
    /\ last' = "analyze"
    /\ UNCHANGED timers

\* a request in flight is answered with a 2xx status and the body data:
\* analyze() resumes after its awaits (the continuation between the two awaits
\* changes no field)
AnalyzeFulfilled(data) ==
    /\ requests > 0
    /\ Commit(analyzeFulfilled(this, data))
    /\ requests' = requests - 1
    /\ last' = "analyzeFulfilled"
    /\ UNCHANGED timers

\* a request in flight fails (fetch() or json() rejects, or the status is not
\* 2xx): analyze() resumes in its catch block
AnalyzeRejected(message) ==
    /\ requests > 0
    /\ Commit(analyzeRejected(this, message))
    /\ requests' = requests - 1
    /\ last' = "analyzeRejected"
    /\ UNCHANGED timers

(* Restart *)

StartNew ==
    LET t2 == startNew(this)
    IN  /\ Commit(t2)
        /\ last' = "startNew"
        /\ UNCHANGED <<requests, timers>>

Next ==
    \/ \E value \in InputTexts : InputChange(value)
    \/ \E key \in Keys : InputKeydown(key)
    \/ InputBlur
    \/ BlurTimeout
    \/ \E i \in 1..SuggestionLimit : SuggestionClick(i)
    \/ \E index \in -1..MaxSelected : RemoveSymptom(index)
    \/ NextStep
    \/ BackToStep1
    \/ \E v \in AgeTexts : AgeInput(v)
    \/ \E v \in GenderValues : GenderChange(v)
    \/ NextFromStep2
    \/ BackToStep2
    \/ Analyze
    \/ \E data \in Responses : AnalyzeFulfilled(data)
    \/ \E message \in FailureMessages : AnalyzeRejected(message)
    \/ StartNew

Spec == Init /\ [][Next]_vars

\* a request in flight settles: the service answers, or the call fails
Settle ==
    \/ \E data \in Responses : AnalyzeFulfilled(data)
    \/ \E message \in FailureMessages : AnalyzeRejected(message)

\* every fetch() settles in the end (the browser answers or times the call out)
FairSpec == Spec /\ WF_vars(Settle)

\* The typeahead alone, with a query that more than 8 entries match ("a").
\* The handlers left out (steps 2 to 4) write none of inputText,
\* selectedSymptoms, filteredSuggestions, showSuggestions, activeIndex.
WideInputTexts == InputTexts \cup {<<"a">>}

TypeaheadNext ==
    \/ \E value \in WideInputTexts : InputChange(value)
    \/ \E key \in Keys : InputKeydown(key)
    \/ InputBlur
    \/ BlurTimeout
    \/ \E i \in 1..SuggestionLimit : SuggestionClick(i)
    \/ \E index \in -1..MaxSelected : RemoveSymptom(index)
    \/ NextStep
    \/ BackToStep1
    \/ StartNew

TypeaheadSpec == Init /\ [][TypeaheadNext]_vars

-----------------------------------------------------------------------------
(* Properties *)

Fever == <<"F","e","v","e","r">>
fever == <<"f","e","v","e","r">>

\* C1: if startNew is invoked while an analyze request is outstanding, the
\* later successful completion of that request does not repopulate the state:
\* after the response is processed, result is still absent and step is still 1.
\* (A request in flight right after startNew was sent before it.)
C1_StaleResponseIgnored ==
    [][\A data \in Responses :
          (last = "startNew" /\ AnalyzeFulfilled(data)) => (result' = null /\ step' = 1)]_vars

\* C2: when the timer of onInputBlur fires after a later event (onInputChange
\* with non-empty text, ArrowDown, ArrowUp) reopened the overlay, it is a no-op:
\* showSuggestions stays true and activeIndex is unchanged.  (A timer pending
\* right after one of these events was set before it.)
C2_SupersededCloseIsNoOp ==
    [][(last \in {"onInputChange", "ArrowDown", "ArrowUp"} /\ showSuggestions /\ BlurTimeout)
          => (showSuggestions' /\ activeIndex' = activeIndex)]_vars

\* C3: immediately after startNew, whatever ran before it, every field has
\* the value the constructor gives it.
C3_RestartResets == last = "startNew" => this = initial

\* C3 witness: startNew has run after a request was sent from Review, that is
\* after symptoms were entered and steps 2 and 3 were visited.
C3_Witness == last = "startNew" /\ requests > 0 /\ this = initial

\* C4: analyze sets loading as soon as it is invoked; once the call settles
\* (success or failure) loading is false; and if every request settles in the
\* end, every invocation of analyze is followed by a state with loading false.
C4_LoadingSettles ==
    /\ [](last = "analyze" => loading)
    /\ [](last \in {"analyzeFulfilled", "analyzeRejected"} => ~loading)
    /\ ((last = "analyze") ~> ~loading)

\* C4 witness: a request sent from Review has failed, and loading is false.
C4_Witness == last = "analyzeRejected" /\ step = 3 /\ error # "" /\ ~loading

\* C5: in every reachable state, if an analyze request is outstanding then
\* loading is true.
C5_OutstandingImpliesLoading == requests > 0 => loading

\* C6: at most one analyze request is outstanding at any time (analyze invoked
\* while loading is true starts no second request).
C6_AtMostOneRequest == requests <= 1

\* C7: in every reachable state, selectedSymptoms holds only entries of
\* ALL_SYMPTOMS and holds no entry twice; and a handler that adds (Enter or
\* comma, a click on a suggestion, nextStep) keeps what was selected and
\* appends only entries that were not, so that adding an entry selected
\* already leaves the length unchanged.
C7_SelectionCanonicalNoDuplicates ==
    /\ [](/\ \A i \in 1..Len(selectedSymptoms) :
               arrayIncludes(ALL_SYMPTOMS, selectedSymptoms[i])
          /\ \A i, j \in 1..Len(selectedSymptoms) :
               selectedSymptoms[i] = selectedSymptoms[j] => i = j)
    /\ [][last' \in {"Enter", "selectSuggestion", "nextStep"} =>
            /\ Len(selectedSymptoms') >= Len(selectedSymptoms)
            /\ SubSeq(selectedSymptoms', 1, Len(selectedSymptoms)) = selectedSymptoms
            /\ \A i \in (Len(selectedSymptoms) + 1)..Len(selectedSymptoms') :
                  ~arrayIncludes(selectedSymptoms, selectedSymptoms'[i])]_vars

\* C7 witness: "Fever" was committed as free text while fever was selected
\* already, next to another entry: nothing was added.
C7_Witness ==
    /\ last = "Enter"
    /\ inputText = Fever
    /\ error = "No results"
    /\ Len(selectedSymptoms) = 2
    /\ arrayIncludes(selectedSymptoms, fever)

\* C8: in every reachable state, filteredSuggestions has at most 8 elements,
\* each an entry of ALL_SYMPTOMS and none present in selectedSymptoms.
C8_SuggestionsBoundedAndFresh ==
    /\ Len(filteredSuggestions) <= 8
    /\ \A i \in 1..Len(filteredSuggestions) :
          /\ arrayIncludes(ALL_SYMPTOMS, filteredSuggestions[i])
          /\ ~arrayIncludes(selectedSymptoms, filteredSuggestions[i])

\* C8 witness: a query that more than 8 entries match, typed after a
\* selection was made: the list shown holds 8 entries.
C8_Witness ==
    /\ last = "onInputChange"
    /\ inputText = <<"a">>
    /\ Len(filteredSuggestions) = 8
    /\ selectedSymptoms # <<>>

\* C9: in every reachable state, activeIndex is -1 or a valid position of
\* filteredSuggestions.
C9_ActiveIndexInRange ==
    activeIndex = -1 \/ (0 <= activeIndex /\ activeIndex < Len(filteredSuggestions))

\* C10: on a non-empty list of length n, ArrowUp moves activeIndex from 0 to
\* n - 1, from -1 (nothing highlighted) to n - 1, and otherwise down by 1.
C10_ArrowUpWraps ==
    [][(InputKeydown("ArrowUp") /\ Len(filteredSuggestions) > 0)
          => activeIndex' = IF activeIndex <= 0 THEN Len(filteredSuggestions) - 1
                            ELSE activeIndex - 1]_vars

\* C11: ArrowDown forces the overlay open and, on a non-empty list of length
\* n, moves activeIndex to the next position modulo n (from -1 to 0, from n - 1
\* to 0); on an empty list activeIndex stays -1.
C11_ArrowDownAdvances ==
    [][(last' = "ArrowDown" /\ InputKeydown("ArrowDown")) =>
          /\ showSuggestions'
          /\ Len(filteredSuggestions) > 0 =>
                activeIndex' = (activeIndex + 1) % Len(filteredSuggestions)
          /\ (Len(filteredSuggestions) = 0 /\ activeIndex = -1) => activeIndex' = -1]_vars

\* C11 witness: ArrowDown has put the highlight on the first of 3 suggestions
\* (from -1, or wrapping from the last).
C11_Witness ==
    /\ last = "ArrowDown"
    /\ Len(filteredSuggestions) = 3
    /\ activeIndex = 0
    /\ showSuggestions

\* the vocabulary entries that equal, ignoring case, some trimmed segment of
\* text and are not in selected
Addable(text, selected) ==
    LET parts == split(text)
        lows  == {toLowerCase(trim(parts[i])) : i \in 1..Len(parts)}
    IN  {ALL_SYMPTOMS[k] : k \in {j \in 1..Len(ALL_SYMPTOMS) :
                                    /\ toLowerCase(ALL_SYMPTOMS[j]) \in lows
                                    /\ ~arrayIncludes(selected, ALL_SYMPTOMS[j])}}

\* C12: nextStep moves from step 1 to step 2 exactly when the pending text (if
\* any) yields an addition and the selection is then non-empty, and then error
\* is empty; otherwise step stays 1, selectedSymptoms is unchanged and error is
\* non-empty.
C12_NextStepGuard ==
    [][(last' = "nextStep" /\ NextStep) =>
          LET pending == Len(trim(inputText)) > 0
              added   == Addable(inputText, selectedSymptoms) # {}
          IN  IF (pending => added) /\ (selectedSymptoms # <<>> \/ (pending /\ added))
              THEN step' = 2 /\ error' = "" /\ selectedSymptoms' # <<>>
              ELSE /\ step' = 1
                   /\ selectedSymptoms' = selectedSymptoms
                   /\ error' # ""]_vars

\* C12 witness: nextStep was aborted although a symptom is selected, because
\* the pending text "ch" matches no vocabulary entry.
C12_Witness ==
    /\ last = "nextStep"
    /\ step = 1
    /\ inputText = <<"c","h">>
    /\ selectedSymptoms # <<>>
    /\ error # ""

\* C13 as stated: nextStep with pending text that yields no additions is
\* aborted with the message of the empty-selection guard.
C13_AbortMessageIsPleasePick ==
    [][(last' = "nextStep" /\ NextStep /\ Len(trim(inputText)) > 0
                 /\ Addable(inputText, selectedSymptoms) = {}) =>
          /\ step' = 1
          /\ error' = "Please pick from available symptoms. No results were found for your input."]_vars

\* C13 amended: nextStep with pending text that yields no additions is aborted
\* with the message "No results" that addFromInputExact left, whether or not
\* the selection is empty.
C13_AbortMessageIsNoResults ==
    [][(last' = "nextStep" /\ NextStep /\ Len(trim(inputText)) > 0
                 /\ Addable(inputText, selectedSymptoms) = {}) =>
          /\ step' = 1
          /\ error' = "No results"]_vars

\* C13 witness: nextStep with the pending text "ch" and nothing selected has
\* stopped on step 1 with "No results".
C13_Witness ==
    /\ last = "nextStep"
    /\ step = 1
    /\ inputText = <<"c","h">>
    /\ selectedSymptoms = <<>>
    /\ error = "No results"

\* selected without the element at position index (counted from 0)
Without(selected, index) ==
    [i \in 1..(Len(selected) - 1) |->
        IF i <= index THEN selected[i] ELSE selected[i + 1]]

\* C14: removeSymptom(index) with index outside 0..length-1 leaves
\* selectedSymptoms unchanged; with index in range it removes the element at
\* that position and keeps the order of the others.
C14_RemoveOutOfRangeIsNoOp ==
    [][\A index \in -1..MaxSelected :
          (last' = "removeSymptom" /\ RemoveSymptom(index)) =>
              selectedSymptoms' =
                  IF index >= 0 /\ index < Len(selectedSymptoms)
                  THEN Without(selectedSymptoms, index)
                  ELSE selectedSymptoms]_vars

\* C15: a failed analyze request sets error to a non-empty message and leaves
\* step (3 when the user is still on Review), selectedSymptoms, age, gender and
\* result unchanged.
C15_FailureKeepsReview ==
    [][\A message \in FailureMessages :
          (last' = "analyzeRejected" /\ AnalyzeRejected(message)) =>
              /\ error' # ""
              /\ step = 3 => step' = 3
              /\ UNCHANGED <<step, selectedSymptoms, age, gender, result>>]_vars

\* C15 witness: the request sent from Review has failed; the wizard is on step
\* 3 with the selection and the age it was sent with.
C15_Witness ==
    /\ last = "analyzeRejected"
    /\ step = 3
    /\ error = "Failed to fetch"
    /\ selectedSymptoms # <<>>
    /\ age # null
    /\ result = null

\* the transition commits the free text: Enter or comma with no valid
\* activeIndex, or nextStep with pending text
CommitsFreeText ==
    \/ /\ last' = "Enter"
       /\ ~(activeIndex >= 0 /\ activeIndex < Len(filteredSuggestions))
       /\ InputKeydown("Enter") \/ InputKeydown(",")
    \/ /\ last' = "nextStep"
       /\ Len(trim(inputText)) > 0
       /\ NextStep

\* position of the first segment of text that equals v ignoring case
FirstSegment(text, v) ==
    LET parts == split(text)
        at    == {i \in 1..Len(parts) : toLowerCase(trim(parts[i])) = toLowerCase(v)}
    IN  CHOOSE i \in at : \A j \in at : i <= j

\* C16: committing free text appends exactly the vocabulary entries that equal
\* a trimmed segment ignoring case and are not selected, once each, in segment
\* order; the input is reset with no error iff something was appended, and
\* otherwise the text is kept and error is non-empty.
C16_ReconcileExactMatches ==
    [][CommitsFreeText =>
          LET add == Addable(inputText, selectedSymptoms)
              n   == Len(selectedSymptoms)
              new == SubSeq(selectedSymptoms', n + 1, Len(selectedSymptoms'))
          IN  /\ Len(selectedSymptoms') >= n
              /\ SubSeq(selectedSymptoms', 1, n) = selectedSymptoms
              /\ {new[i] : i \in 1..Len(new)} = add
              /\ Len(new) = Cardinality(add)
              /\ \A i, j \in 1..Len(new) :
                    i < j => FirstSegment(inputText, new[i]) < FirstSegment(inputText, new[j])
              /\ (add # {}) <=> (inputText' = <<>> /\ error' = "")
              /\ (add = {}) => (inputText' = inputText /\ error' # "")]_vars

\* C16 witness: Enter on " fever, Cough,,xyz" has appended fever and cough in
\* that order and reset the input.
C16_Witness ==
    /\ last = "Enter"
    /\ selectedSymptoms = <<fever, <<"c","o","u","g","h">> >>
    /\ inputText = <<>>
    /\ error = ""

\* C17: Enter or comma with activeIndex on an entry of filteredSuggestions
\* adds that entry (if not present) and nothing else, and resets inputText,
\* filteredSuggestions, showSuggestions, activeIndex and error.
C17_EnterCommitsHighlighted ==
    [][(last' = "Enter"
          /\ activeIndex >= 0 /\ activeIndex < Len(filteredSuggestions)
          /\ (InputKeydown("Enter") \/ InputKeydown(","))) =>
          LET s == filteredSuggestions[activeIndex + 1]
          IN  /\ selectedSymptoms' = IF arrayIncludes(selectedSymptoms, s)
                                     THEN selectedSymptoms
                                     ELSE Append(selectedSymptoms, s)
              /\ inputText' = <<>>
              /\ filteredSuggestions' = <<>>
              /\ ~showSuggestions'
              /\ activeIndex' = -1
              /\ error' = ""]_vars

\* C17 witness: Enter has committed the highlighted suggestion "chills", which
\* the text "ch" does not equal.
C17_Witness ==
    /\ last = "Enter"
    /\ selectedSymptoms = << <<"c","h","i","l","l","s">> >>
    /\ inputText = <<>>
    /\ ~showSuggestions
    /\ error = ""

\* C18: Escape closes the overlay and leaves inputText, selectedSymptoms, step,
\* age, gender, result, error and loading unchanged.
C18_EscapeFrame ==
    [][(last' = "Escape" /\ InputKeydown("Escape")) =>
          /\ ~showSuggestions'
          /\ UNCHANGED <<inputText, selectedSymptoms, step, age, gender, result,
                         error, loading>>]_vars

\* C18 witness: Escape has closed the overlay over the text "ch" with a symptom
\* selected.
C18_Witness ==
    /\ last = "Escape"
    /\ inputText = <<"c","h">>
    /\ selectedSymptoms # <<>>
    /\ ~showSuggestions

\* C19: every transition that takes the wizard to step 4 starts in step 3.
C19_ResultsOnlyFromReview ==
    [][(step' = 4 /\ step # 4) => step = 3]_vars

\* C20: step is 4 iff result is non-null, and result is set only by a
\* successful completion of analyze.
C20_ResultIffResults ==
    /\ []((step = 4) <=> (result # null))
    /\ [][(result' # result /\ result' # null) =>
              \E data \in Responses : AnalyzeFulfilled(data)]_vars

\* C20 witness: a successful completion has stored the result and the wizard
\* is on step 4.
C20_Witness ==
    /\ last = "analyzeFulfilled"
    /\ step = 4
    /\ result # null

====
